---- MODULE Spec2Model ----
(***************************************************************************)
(* A model of sense-voice/csrc/sense-voice-decoder.cc: the CTC decoder of  *)
(* SenseVoice.cpp.                                                         *)
(*                                                                         *)
(*   ggml_mul_mat_pad                     the padded matrix multiply       *)
(*   sense_voice_build_graph_ctc_decoder  the graph builder                *)
(*   ggml_graph_compute_helper            the execution driver             *)
(*   sense_voice_decode_internal          the decode call                  *)
(*                                                                         *)
(* A tensor is a record: op, type, ne (elements per dimension), nb (byte   *)
(* strides), src (operands), off (byte offset of a view into its source)   *)
(* and name. TLA+ sequences start at 1, so ne[1] is the code's ne[0].      *)
(* The tensor engine itself (ggml) is outside the file; what it does is    *)
(* modelled at its interface: an allocation or an execution may fail, a    *)
(* failed GGML_ASSERT ends the process, and the data an execution leaves   *)
(* in the arg-max tensor is any id sequence of the right length.           *)
(***************************************************************************)
EXTENDS Integers, Sequences, FiniteSets, TLC

\* ------------------------------------------------------------- bounds
MaxFrames == 2
MaxId == 2
MaxTime == 1
MaxN0 == 26
MaxPad == 3
MaxRows == 2
MaxBatch == 1
MaxSeed == 1

\* ------------------------------------------------- program constants
SENSEVOICE_DECODER_MAX_NODES == 8
DefaultPad == 32
n_pad_req == 8
SizeofFloat == 4

\* the element types an encoder output is drawn from, and the model
\* widths: 512 is a multiple of the default pad, 530 is not
Types == {"F32", "F16"}
EmbdDims == {512, 530}
ThreadCounts == {4}
Statuses == {"SUCCESS", "FAILED", "ALLOC_FAILED", "ABORTED"}
Alphabet == <<"<blank>", "A", "B", "C", "D">>

VARIABLES
    useMetal,     \* the build defines GGML_USE_METAL
    n_embd,       \* ne[0] of ctc_out_linear_weight and of the encoder output
    encoder_out,  \* state.encoder_out: [type, ne]
    ids,          \* state.ids
    t_decode_us,  \* state.t_decode_us
    sched,        \* state.sched_decode.sched: [allocated, n_threads per backend]
    now,          \* the clock ggml_time_us() reads
    pc,           \* position of the decode call
    n_threads,    \* argument of the call
    t_start_us,   \* local of the call
    gf,           \* the graph of the call: [size, nodes, leafs]
    inputBytes,   \* size passed to ggml_backend_tensor_set, 0 before the copy
    status,       \* what ggml_backend_sched_graph_compute returned
    t,            \* local t of ggml_graph_compute_helper
    data,         \* data of the graph's nodes after the execution, by node index
    text,         \* what the call wrote to stdout
    ret,          \* the call's return value
    trace,        \* the stages the call has gone through, in order
    ids_pre,      \* state.ids when the call began
    padX, padY, padPad, padSeed, padZ, padDone   \* a call of ggml_mul_mat_pad

decodeVars == <<useMetal, n_embd, encoder_out, ids, t_decode_us, sched, now, pc,
                n_threads, t_start_us, gf, inputBytes, status, t, data, text,
                ret, trace, ids_pre>>
padVars == <<padX, padY, padPad, padSeed, padZ, padDone>>
vars == <<decodeVars, padVars>>

\* ------------------------------------------------------------ tensors
ggml_type_size(type) == IF type = "F16" THEN 2 ELSE 4

ne0(a) == a.ne[1]
ne1(a) == a.ne[2]
ne2(a) == a.ne[3]
nb0(a) == a.nb[1]
nb1(a) == a.nb[2]
nb2(a) == a.nb[3]

ggml_nelements(a) == ne0(a) * ne1(a) * ne2(a)
ggml_nbytes(a) == ggml_nelements(a) * ggml_type_size(a.type)

ggml_new_tensor(type, n0, n1, n2, name) ==
    [op |-> "NONE", type |-> type, ne |-> <<n0, n1, n2>>,
     nb |-> <<ggml_type_size(type), ggml_type_size(type) * n0,
              ggml_type_size(type) * n0 * n1>>,
     src |-> <<>>, off |-> 0, name |-> name]

ggml_op(op, type, n0, n1, n2, src) ==
    [op |-> op, type |-> type, ne |-> <<n0, n1, n2>>,
     nb |-> <<ggml_type_size(type), ggml_type_size(type) * n0,
              ggml_type_size(type) * n0 * n1>>,
     src |-> src, off |-> 0, name |-> ""]

ggml_view_3d(a, n0, n1, n2, b1, b2, offset) ==
    [op |-> "VIEW", type |-> a.type, ne |-> <<n0, n1, n2>>,
     nb |-> <<ggml_type_size(a.type), b1, b2>>,
     src |-> <<a>>, off |-> offset, name |-> ""]

ggml_mul_mat(a, b) == ggml_op("MUL_MAT", "F32", ne1(a), ne1(b), ne2(b), <<a, b>>)
ggml_add(a, b) == ggml_op("ADD", a.type, ne0(a), ne1(a), ne2(a), <<a, b>>)
ggml_soft_max(a) == ggml_op("SOFT_MAX", a.type, ne0(a), ne1(a), ne2(a), <<a>>)
ggml_argmax(a) == ggml_op("ARGMAX", "I32", ne1(a), 1, 1, <<a>>)

\* ---------------------------------------------------- ggml_mul_mat_pad
\* the split with the remainder views starting at the wrong offset
ggml_mul_mat_pad_offset(x, y, pad) ==
    IF ne0(x) % pad = 0 \/ ne0(x) \div pad < n_pad_req
    THEN ggml_mul_mat(x, y)
    ELSE LET x_0 == ggml_view_3d(x, (ne0(x) \div pad) * pad, ne1(x), ne2(x),
                                 nb1(x), nb2(x), 0)
             x_1 == ggml_view_3d(x, ne0(x) % pad, ne1(x), ne2(x),
                                 nb1(x), nb2(x), ne0(x_0) * nb0(x_0))
             y_0 == ggml_view_3d(y, (ne0(y) \div pad) * pad, ne1(y), ne2(y),
                                 nb1(y), nb2(y), 0)
             y_1 == ggml_view_3d(y, ne0(y) % pad, ne1(y), ne2(y),
                                 nb1(y), nb2(y), (ne0(y_0) - 1) * nb0(y_0))
         IN  ggml_add(ggml_mul_mat(x_0, y_0), ggml_mul_mat(x_1, y_1))

\* the split taken whenever dimension 0 is long enough, aligned or not
ggml_mul_mat_pad_always(x, y, pad) ==
    IF ne0(x) \div pad < n_pad_req
    THEN ggml_mul_mat(x, y)
    ELSE LET x_0 == ggml_view_3d(x, (ne0(x) \div pad) * pad, ne1(x), ne2(x),
                                 nb1(x), nb2(x), 0)
             x_1 == ggml_view_3d(x, ne0(x) % pad, ne1(x), ne2(x),
                                 nb1(x), nb2(x), ne0(x_0) * nb0(x_0))
             y_0 == ggml_view_3d(y, (ne0(y) \div pad) * pad, ne1(y), ne2(y),
                                 nb1(y), nb2(y), 0)
             y_1 == ggml_view_3d(y, ne0(y) % pad, ne1(y), ne2(y),
                                 nb1(y), nb2(y), ne0(y_0) * nb0(y_0))
         IN  ggml_add(ggml_mul_mat(x_0, y_0), ggml_mul_mat(x_1, y_1))

\* lines 48-66
ggml_mul_mat_pad(x, y, pad) ==
    IF ne0(x) % pad = 0 \/ ne0(x) \div pad < n_pad_req
    THEN ggml_mul_mat(x, y)
    ELSE LET x_0 == ggml_view_3d(x, (ne0(x) \div pad) * pad, ne1(x), ne2(x),
                                 nb1(x), nb2(x), 0)
             x_1 == ggml_view_3d(x, ne0(x) % pad, ne1(x), ne2(x),
                                 nb1(x), nb2(x), ne0(x_0) * nb0(x_0))
             y_0 == ggml_view_3d(y, (ne0(y) \div pad) * pad, ne1(y), ne2(y),
                                 nb1(y), nb2(y), 0)
             y_1 == ggml_view_3d(y, ne0(y) % pad, ne1(y), ne2(y),
                                 nb1(y), nb2(y), ne0(y_0) * nb0(y_0))
         IN  ggml_add(ggml_mul_mat(x_0, y_0), ggml_mul_mat(x_1, y_1))

\* the macro of line 71: under GGML_USE_METAL every ggml_mul_mat that follows
\* it is ggml_mul_mat_pad with the default pad
mul_mat_macro(metal, a, b) ==
    IF metal THEN ggml_mul_mat_pad(a, b, DefaultPad) ELSE ggml_mul_mat(a, b)

\* ------------------------------------------------------ graph builder
\* ggml_build_forward_expand: the operations reachable from the tensor, each
\* after its operands; tensors without an operation are leafs, not nodes
RECURSIVE visit_nodes(_)
visit_nodes(a) ==
    IF a.op = "NONE" THEN <<>>
    ELSE (IF Len(a.src) >= 1 THEN visit_nodes(a.src[1]) ELSE <<>>)
         \o (IF Len(a.src) >= 2 THEN visit_nodes(a.src[2]) ELSE <<>>)
         \o <<a>>

RECURSIVE visit_leafs(_)
visit_leafs(a) ==
    IF a.op = "NONE" THEN {a}
    ELSE UNION {visit_leafs(a.src[i]) : i \in 1..Len(a.src)}

graph_output(metal, enc, embd) ==
    LET weight == ggml_new_tensor("F16", embd, MaxId + 1, 1, "ctc.ctc_lo.weight")
        bias == ggml_new_tensor("F32", MaxId + 1, 1, 1, "ctc.ctc_lo.bias")
        encoder_out_t == ggml_new_tensor(enc.type, enc.ne[1], enc.ne[2], 1, "encoder_out")
        cur0 == mul_mat_macro(metal, weight, encoder_out_t)
        cur == ggml_add(cur0, bias)
        probs == ggml_soft_max(cur)
        argmax_logit == ggml_argmax(probs)
    IN  argmax_logit

sense_voice_build_graph_ctc_decoder(metal, enc, embd) ==
    LET out == graph_output(metal, enc, embd)
    IN  [size |-> SENSEVOICE_DECODER_MAX_NODES,
         nodes |-> visit_nodes(out),
         leafs |-> visit_leafs(out)]

n_nodes(g) == Len(g.nodes)

ggml_graph_get_tensor(g, name) == CHOOSE a \in g.leafs : a.name = name

\* ----------------------------------------------------------- decoding
id_to_token(id) == <<Alphabet[id + 1]>>

\* the loop that also drops an id equal to the one before it
RECURSIVE print_ids_collapse(_, _, _)
print_ids_collapse(s, i, out) ==
    IF i > Len(s) THEN out
    ELSE print_ids_collapse(s, i + 1,
             IF s[i] # 0 /\ (i = 1 \/ s[i] # s[i - 1])
             THEN out \o id_to_token(s[i]) ELSE out)

\* the loop of lines 177-181, from position i on, appended to out
RECURSIVE print_ids(_, _, _)
print_ids(s, i, out) ==
    IF i > Len(s) THEN out
    ELSE print_ids(s, i + 1, IF s[i] # 0 THEN out \o id_to_token(s[i]) ELSE out)

print_step(s) == print_ids(s, 1, <<>>) \o <<"\n">>

NoGraph == [size |-> 0, nodes |-> <<>>, leafs |-> {}]

Backends(metal) == IF metal THEN <<"metal", "cpu">> ELSE <<"cpu">>

InitDecode ==
    /\ useMetal \in BOOLEAN
    /\ n_embd \in EmbdDims
    /\ \E ty \in Types : encoder_out = [type |-> ty, ne |-> <<n_embd, 1>>]
    /\ ids = <<>>
    /\ t_decode_us = 0
    /\ sched = [allocated |-> FALSE,
                n_threads |-> [i \in 1..Len(Backends(useMetal)) |-> 0]]
    /\ now = 0
    /\ pc = "idle"
    /\ n_threads = 0
    /\ t_start_us = 0
    /\ gf = NoGraph
    /\ inputBytes = 0
    /\ status = "NONE"
    /\ t = FALSE
    /\ data = <<>>
    /\ text = <<>>
    /\ ret = FALSE
    /\ trace = <<>>
    /\ ids_pre = <<>>

PadIdle ==
    /\ padX = ggml_new_tensor("F32", 1, 1, 1, "x")
    /\ padY = ggml_new_tensor("F32", 1, 1, 1, "y")
    /\ padPad = 1
    /\ padSeed = 0
    /\ padZ = padX
    /\ padDone = FALSE

Init == InitDecode /\ PadIdle

\* lines 139-150: the clock is read, the encoder's output of this step is in
\* the session, the graph is built. ggml_build_forward_expand asserts that the
\* nodes fit the graph's size.
DecodeBegin ==
    /\ pc \in {"idle", "returned"}
    /\ \E frames \in 1..MaxFrames :
           encoder_out' = [encoder_out EXCEPT !.ne = <<n_embd, frames>>]
    /\ n_threads' \in ThreadCounts
    /\ t_start_us' = now
    /\ gf' = sense_voice_build_graph_ctc_decoder(useMetal, encoder_out', n_embd)
    /\ pc' = IF n_nodes(gf') > gf'.size THEN "aborted" ELSE "built"
    /\ trace' = <<"build">>
    /\ inputBytes' = 0
    /\ status' = "NONE"
    /\ t' = FALSE
    /\ data' = <<>>
    /\ text' = <<>>
    /\ ret' = FALSE
    /\ ids_pre' = ids
    /\ UNCHANGED <<useMetal, n_embd, ids, t_decode_us, sched, now, padVars>>

\* the allocation with its failure ignored
AllocGraph_continue ==
    /\ pc = "built"
    /\ \E ok \in BOOLEAN :
           /\ sched' = [sched EXCEPT !.allocated = ok]
           /\ trace' = Append(trace, IF ok THEN "alloc" ELSE "alloc_failed")
    /\ pc' = "allocated"
    /\ UNCHANGED <<useMetal, n_embd, encoder_out, ids, t_decode_us, now, n_threads,
                   t_start_us, gf, inputBytes, status, t, data, text, ret, ids_pre,
                   padVars>>

\* lines 155-158
AllocGraph ==
    /\ pc = "built"
    /\ \E ok \in BOOLEAN :
           IF ok
           THEN /\ sched' = [sched EXCEPT !.allocated = TRUE]
                /\ trace' = Append(trace, "alloc")
                /\ pc' = "allocated"
                /\ ret' = ret
           ELSE /\ sched' = sched
                /\ trace' = Append(trace, "alloc_failed")
                /\ pc' = "returned"
                /\ ret' = FALSE
    /\ UNCHANGED <<useMetal, n_embd, encoder_out, ids, t_decode_us, now, n_threads,
                   t_start_us, gf, inputBytes, status, t, data, text, ids_pre,
                   padVars>>

\* line 166: the size the call passes to ggml_backend_tensor_set
input_size(a) == ggml_nelements(a) * SizeofFloat

\* lines 162-167; ggml_backend_tensor_set asserts that the write is inside the
\* tensor
SetInput ==
    /\ pc = "allocated"
    /\ LET a == ggml_graph_get_tensor(gf, "encoder_out")
       IN  /\ inputBytes' = input_size(a)
           /\ pc' = IF inputBytes' > ggml_nbytes(a) THEN "aborted" ELSE "input_set"
    /\ trace' = Append(trace, "copy")
    /\ UNCHANGED <<useMetal, n_embd, encoder_out, ids, t_decode_us, sched, now,
                   n_threads, t_start_us, gf, status, t, data, text, ret, ids_pre,
                   padVars>>

\* lines 113-129: every backend of the scheduler gets the thread count
HelperConfigure ==
    /\ pc = "input_set"
    /\ sched' = [sched EXCEPT !.n_threads =
                     [i \in 1..Len(Backends(useMetal)) |->
                          IF Backends(useMetal)[i] = "cpu"
                             \/ (useMetal /\ Backends(useMetal)[i] = "metal")
                          THEN n_threads ELSE @[i]]]
    /\ pc' = "configured"
    /\ UNCHANGED <<useMetal, n_embd, encoder_out, ids, t_decode_us, now, n_threads,
                   t_start_us, gf, inputBytes, status, t, data, text, ret, trace,
                   ids_pre, padVars>>

\* what an execution leaves in the nodes: one id per frame in the arg-max
\* node; the other nodes hold floats, which the model leaves empty
node_data(g, argmax_ids) ==
    [i \in 1..n_nodes(g) |-> IF g.nodes[i].op = "ARGMAX" THEN argmax_ids ELSE <<>>]

\* the arg-max node after a failed execution: the call never reads it, the
\* model keeps one id 0 per frame there
unwritten(frames) == [i \in 1..frames |-> 0]

\* line 131, the call of ggml_backend_sched_graph_compute
GraphCompute ==
    /\ pc = "configured"
    /\ \E st \in Statuses :
           /\ status' = st
           /\ IF st = "SUCCESS"
              THEN \E s \in [1..encoder_out.ne[2] -> 0..MaxId] :
                       data' = node_data(gf, s)
              ELSE data' = node_data(gf, unwritten(encoder_out.ne[2]))
    /\ trace' = Append(trace, "compute")
    /\ pc' = "computed"
    /\ UNCHANGED <<useMetal, n_embd, encoder_out, ids, t_decode_us, sched, now,
                   n_threads, t_start_us, gf, inputBytes, t, text, ret, ids_pre,
                   padVars>>

\* line 131: the comparison with GGML_STATUS_SUCCESS
graph_compute_ok_any(st) == st # "ABORTED"

graph_compute_ok(st) == st = "SUCCESS"

\* the helper with an early return on failure, before the reset
HelperReset_early ==
    /\ pc = "computed"
    /\ t' = graph_compute_ok(status)
    /\ IF t'
       THEN /\ sched' = [sched EXCEPT !.allocated = FALSE]
            /\ trace' = Append(trace, "reset")
       ELSE UNCHANGED <<sched, trace>>
    /\ pc' = "helper_ret"
    /\ UNCHANGED <<useMetal, n_embd, encoder_out, ids, t_decode_us, now, n_threads,
                   t_start_us, gf, inputBytes, status, data, text, ret, ids_pre,
                   padVars>>

\* lines 131-133: t, the reset of the scheduler, the return
HelperReset ==
    /\ pc = "computed"
    /\ t' = graph_compute_ok(status)
    /\ sched' = [sched EXCEPT !.allocated = FALSE]
    /\ trace' = Append(trace, "reset")
    /\ pc' = "helper_ret"
    /\ UNCHANGED <<useMetal, n_embd, encoder_out, ids, t_decode_us, now, n_threads,
                   t_start_us, gf, inputBytes, status, data, text, ret, ids_pre,
                   padVars>>

\* the read that stops one element early
extract_ids_short(g, d) ==
    LET argmax_logit == g.nodes[n_nodes(g)]
    IN  SubSeq(d[n_nodes(g)], 1, ne0(argmax_logit) - 1)

\* line 173-175: the ids read from the last node of the graph
extract_ids(g, d) ==
    LET argmax_logit == g.nodes[n_nodes(g)]
    IN  SubSeq(d[n_nodes(g)], 1, ne0(argmax_logit))

\* the counter assigned, not accumulated
add_elapsed_assign(total, start, end) == end - start

\* line 187
add_elapsed(total, start, end) == total + (end - start)

\* lines 169-189
DecodeFinish ==
    /\ pc = "helper_ret"
    /\ IF ~t
       THEN /\ ret' = FALSE
            /\ UNCHANGED <<ids, text, t_decode_us, trace>>
       ELSE /\ ids' = extract_ids(gf, data)
            /\ text' = print_step(ids')
            /\ t_decode_us' = add_elapsed(t_decode_us, t_start_us, now)
            /\ trace' = trace \o <<"extract", "print">>
            /\ ret' = TRUE
    /\ pc' = "returned"
    /\ UNCHANGED <<useMetal, n_embd, encoder_out, sched, now, n_threads, t_start_us,
                   gf, inputBytes, status, t, data, ids_pre, padVars>>

\* time passes
Tick ==
    /\ pc \notin {"aborted", "pad"}
    /\ now < MaxTime
    /\ now' = now + 1
    /\ UNCHANGED <<useMetal, n_embd, encoder_out, ids, t_decode_us, sched, pc,
                   n_threads, t_start_us, gf, inputBytes, status, t, data, text,
                   ret, trace, ids_pre, padVars>>

Next ==
    \/ DecodeBegin
    \/ AllocGraph
    \/ SetInput
    \/ HelperConfigure
    \/ GraphCompute
    \/ HelperReset
    \/ DecodeFinish
    \/ Tick

Spec == Init /\ [][Next]_vars

\* ------------------------------------------------- claims on the decode call
Range(s) == {s[i] : i \in 1..Len(s)}
Count(s, e) == Cardinality({i \in 1..Len(s) : s[i] = e})
Before(s, a, b) == \E i, j \in 1..Len(s) : i < j /\ s[i] = a /\ s[j] = b
FullTrace == <<"build", "alloc", "copy", "compute", "reset", "extract", "print">>

StageFailed ==
    \/ "alloc_failed" \in Range(trace)
    \/ ("compute" \in Range(trace) /\ status # "SUCCESS")

\* C1: a decode call in which the allocation fails or the execution reports a
\* status other than success returns false, leaves state.ids as it was before
\* the call and emits no text.
C1_FailurePublishesNothing ==
    (pc = "returned" /\ StageFailed) =>
        (~ret /\ ids = ids_pre /\ text = <<>> /\ "extract" \notin Range(trace))

C1_Witness ==
    /\ pc = "returned"
    /\ status = "FAILED"
    /\ ~ret
    /\ ids_pre # <<>>
    /\ ids = ids_pre

C3_StageOrder ==
    /\ trace # <<>> => trace[1] = "build"
    /\ \A e \in Range(trace) : Count(trace, e) = 1
    /\ "copy" \in Range(trace) =>
           (Before(trace, "alloc", "copy") /\ "alloc_failed" \notin Range(trace))
    /\ "compute" \in Range(trace) =>
           (Before(trace, "copy", "compute") /\ ~Before(trace, "compute", "copy"))
    /\ "extract" \in Range(trace) =>
           (Before(trace, "compute", "extract") /\ status = "SUCCESS")
    /\ (text # <<>> \/ ids # ids_pre) => "extract" \in Range(trace)
    /\ (pc = "returned" /\ ret) => trace = FullTrace

C3_Witness == pc = "returned" /\ trace = FullTrace

\* C4: after a call that returns true, state.ids is the id sequence of the
\* graph's last node, which is the arg-max node, one id per frame, with
\* nothing left of the previous contents; and allocation and execution both
\* succeeded.
C4_IdsAreArgmax ==
    (pc = "returned" /\ ret) =>
        /\ gf.nodes[n_nodes(gf)].op = "ARGMAX"
        /\ ids = data[n_nodes(gf)]
        /\ Len(ids) = encoder_out.ne[2]
        /\ "alloc" \in Range(trace)
        /\ status = "SUCCESS"

C4_Witness ==
    /\ pc = "returned"
    /\ ret
    /\ Len(ids_pre) > Len(ids)
    /\ ids # SubSeq(ids_pre, 1, Len(ids))

\* the tokens of the ids other than 0, in order
RECURSIVE Concat(_)
Concat(ss) == IF ss = <<>> THEN <<>> ELSE Head(ss) \o Concat(Tail(ss))
NonBlank(id) == id # 0
ExpectedText(s) ==
    LET kept == SelectSeq(s, NonBlank)
    IN  Concat([i \in 1..Len(kept) |-> <<Alphabet[kept[i] + 1]>>])

\* C5: the text of a successful call is the concatenation, in frame order,
\* of the tokens of the ids that are not 0; an id 0 contributes nothing and
\* equal neighbours are not merged.
C5_TextIsNonBlankTokens ==
    (pc = "returned" /\ ret) => text = ExpectedText(ids) \o <<"\n">>

C5_Witness ==
    /\ pc = "returned"
    /\ ret
    /\ ids = <<0, 1>>
    /\ text = <<"A", "\n">>

\* C6 as stated: the graph the builder returns has exactly 4 nodes and no
\* more than SENSEVOICE_DECODER_MAX_NODES, with or without the padded multiply.
C6_Original ==
    gf # NoGraph => (n_nodes(gf) = 4 /\ n_nodes(gf) <= SENSEVOICE_DECODER_MAX_NODES)

\* C7 as stated: the size of the input copy is the element count of the
\* encoder_out tensor times the element size of its type.
C7_Original ==
    inputBytes # 0 =>
        LET a == ggml_graph_get_tensor(gf, "encoder_out")
        IN  inputBytes = ggml_nelements(a) * ggml_type_size(a.type)

\* C8: each run of ggml_graph_compute_helper executes the graph once and
\* resets the scheduler once, after the execution, whatever the status; it
\* returns false exactly when the status is not success.
C8_HelperResetsOnce ==
    pc \in {"helper_ret", "returned"} /\ "compute" \in Range(trace) =>
        /\ Count(trace, "compute") = 1
        /\ Count(trace, "reset") = 1
        /\ Before(trace, "compute", "reset")
        /\ ~sched.allocated
        /\ t = (status = "SUCCESS")

C8_Witness ==
    /\ pc = "helper_ret"
    /\ status = "FAILED"
    /\ ~t
    /\ ~sched.allocated
    /\ Count(trace, "reset") = 1

\* ------------------------------------------- the padded multiply, on data
\* the buffer a tensor's data lies in, and the tensor's byte offset in it
RECURSIVE view_src(_)
view_src(a) == IF a.op = "VIEW" THEN view_src(a.src[1]) ELSE a

RECURSIVE view_offs(_)
view_offs(a) == IF a.op = "VIEW" THEN a.off + view_offs(a.src[1]) ELSE 0

\* byte address of element (i0, i1, i2) within the buffer
addr(a, i0, i1, i2) == view_offs(a) + i0 * nb0(a) + i1 * nb1(a) + i2 * nb2(a)

\* the contents of the buffers "x" and "y": small integers that depend on the
\* element's index; an address outside the buffer reads a value no element has
buffer_value(name, idx, seed) ==
    ((idx * (IF name = "x" THEN 3 ELSE 5) + (idx \div 4) + seed) % 7) - 3

load(a, i0, i1, i2, seed) ==
    LET b == view_src(a)
        at == addr(a, i0, i1, i2)
    IN  IF at % ggml_type_size(b.type) # 0 \/ at < 0 \/ at >= ggml_nbytes(b)
        THEN 1000
        ELSE buffer_value(b.name, at \div ggml_type_size(b.type), seed)

\* the value of element (i0, i1, i2) of a tensor: MUL_MAT sums over dimension
\* 0 of its operands, ADD adds elementwise
RECURSIVE value(_, _, _, _, _)
value(a, i0, i1, i2, seed) ==
    IF a.op = "MUL_MAT"
    THEN LET p == a.src[1]
             q == a.src[2]
             S[k \in 0..ne0(p)] ==
                 IF k = 0 THEN 0
                 ELSE S[k - 1] + value(p, k - 1, i0, i2 % ne2(p), seed)
                                 * value(q, k - 1, i1, i2, seed)
         IN  S[ne0(p)]
    ELSE IF a.op = "ADD"
    THEN value(a.src[1], i0, i1, i2, seed)
         + value(a.src[2], i0 % ne0(a.src[2]), i1 % ne1(a.src[2]),
                 i2 % ne2(a.src[2]), seed)
    ELSE load(a, i0, i1, i2, seed)

DecodeUnused ==
    /\ useMetal = TRUE
    /\ n_embd = 512
    /\ encoder_out = [type |-> "F32", ne |-> <<n_embd, 1>>]
    /\ ids = <<>>
    /\ t_decode_us = 0
    /\ sched = [allocated |-> FALSE,
                n_threads |-> [i \in 1..Len(Backends(useMetal)) |-> 0]]
    /\ now = 0
    /\ pc = "pad"
    /\ n_threads = 0
    /\ t_start_us = 0
    /\ gf = NoGraph
    /\ inputBytes = 0
    /\ status = "NONE"
    /\ t = FALSE
    /\ data = <<>>
    /\ text = <<>>
    /\ ret = FALSE
    /\ trace = <<>>
    /\ ids_pre = <<>>

\* the operands of one call: X of shape [n0, n1, n2] and Y of shape
\* [n0, m1, n2], and the alignment
InitPad ==
    /\ DecodeUnused
    /\ \E tx \in Types, n0 \in 1..MaxN0, n1 \in 1..MaxRows, m1 \in 1..MaxRows,
          n2 \in 1..MaxBatch :
           /\ padX = ggml_new_tensor(tx, n0, n1, n2, "x")
           /\ padY = ggml_new_tensor("F32", n0, m1, n2, "y")
    /\ padPad \in 1..MaxPad
    /\ padSeed \in 0..MaxSeed
    /\ padZ = padX
    /\ padDone = FALSE

MulMatPad ==
    /\ ~padDone
    /\ padZ' = ggml_mul_mat_pad(padX, padY, padPad)
    /\ padDone' = TRUE
    /\ UNCHANGED <<decodeVars, padX, padY, padPad, padSeed>>

NextPad == MulMatPad

SpecPad == InitPad /\ [][NextPad]_vars

\* ------------------------------------------ claims on the padded multiply
Indices(a) == (0..(ne0(a) - 1)) \X (0..(ne1(a) - 1)) \X (0..(ne2(a) - 1))
Addresses(a) == {addr(a, i[1], i[2], i[3]) : i \in Indices(a)}
MulMats(a) == {n \in Range(visit_nodes(a)) : n.op = "MUL_MAT"}
Views(a) == {n \in Range(visit_nodes(a)) : n.op = "VIEW"}

\* C9: the multiply is a single direct one, with no view, when n0 % pad = 0 or
\* n0 / pad < 8; otherwise it is split into a prefix of (n0 / pad) * pad and a
\* remainder of n0 % pad elements of dimension 0; no multiply has an operand
\* of length 0.
C9_SplitPolicy ==
    padDone =>
        LET n0 == ne0(padX) IN
        /\ (n0 % padPad = 0 \/ n0 \div padPad < 8) =>
               (padZ = ggml_mul_mat(padX, padY) /\ Views(padZ) = {}
                /\ Cardinality(MulMats(padZ)) = 1)
        /\ ~(n0 % padPad = 0 \/ n0 \div padPad < 8) =>
               /\ padZ.op = "ADD"
               /\ Cardinality(MulMats(padZ)) = 2
               /\ \A i \in 1..2 :
                      /\ ne0(padZ.src[1].src[i]) = (n0 \div padPad) * padPad
                      /\ ne0(padZ.src[2].src[i]) = n0 % padPad
        /\ \A m \in MulMats(padZ) : ne0(m.src[1]) > 0 /\ ne0(m.src[2]) > 0

C9_Witness ==
    /\ padDone
    /\ ne0(padX) % padPad # 0
    /\ ne0(padX) \div padPad = 7
    /\ padZ.op = "MUL_MAT"

SameElements(v, a, shift) ==
    \A i \in Indices(v) :
        addr(v, i[1], i[2], i[3]) = addr(a, i[1] + shift, i[2], i[3])

\* C10: the result has the shape and type of the direct product and the same
\* elements; on the split path the prefix views hold the first
\* (n0 / pad) * pad elements of dimension 0 of X and of Y, the remainder
\* views the n0 % pad that follow, and the two share no element and leave
\* none out.
C10_SplitIsTransparent ==
    padDone =>
        LET direct == ggml_mul_mat(padX, padY)
            n0 == ne0(padX)
        IN  /\ padZ.ne = direct.ne
            /\ padZ.type = direct.type
            /\ \A i \in Indices(direct) :
                   value(padZ, i[1], i[2], i[3], padSeed)
                       = value(direct, i[1], i[2], i[3], padSeed)
            /\ padZ.op = "ADD" =>
                   \A k \in 1..2 :
                       LET a == IF k = 1 THEN padX ELSE padY
                           v0 == padZ.src[1].src[k]
                           v1 == padZ.src[2].src[k]
                       IN  /\ SameElements(v0, a, 0)
                           /\ SameElements(v1, a, ne0(v0))
                           /\ ne0(v0) + ne0(v1) = ne0(a)
                           /\ Addresses(v0) \cap Addresses(v1) = {}
                           /\ Addresses(v0) \cup Addresses(v1) = Addresses(a)

C10_Witness ==
    /\ padDone
    /\ padZ.op = "ADD"
    /\ ne0(padX) % padPad > 1
    /\ ne1(padX) > 1
    /\ ne1(padY) > 1
    /\ value(padZ, 1, 1, 0, padSeed) # 0

====
